---- MODULE Spec2Model ----
(***************************************************************************)
(* Model of src/main.py: a Streamlit page that loads a regression model    *)
(* once per process (load_model under @st.cache_resource), reads three     *)
(* sliders and, when the button is pressed, runs one inference.            *)
(*                                                                         *)
(* A "script run" is one top-to-bottom execution of main.py.  The process  *)
(* serves a sequence of script runs; each run is started by a user event   *)
(* (opening the page, moving a slider, pressing the button).  pc is the    *)
(* position of the current run in the script.                              *)
(*                                                                         *)
(* Units: the iron slider is a float with step 0.005; it is kept here in   *)
(* thousandths (60.00 is 60000, the step is 5).  Predictor outputs are     *)
(* dyadic floats kept in eighths (150 is 18.75), so that the two-decimal   *)
(* formatting of line 100 can be computed exactly.                         *)
(*                                                                         *)
(* The regressor inside the artifact is not part of the repository:       *)
(* Regress is a fixed synthetic regressor standing for it.                 *)
(*                                                                         *)
(* main.py as stored does not compile (line 49 leaves the `with` block     *)
(* that line 56 continues, and line 54 holds U+00A0 characters).  The      *)
(* model follows the statements in their evident nesting: lines 39-65 are  *)
(* the body of `with st.sidebar`.                                          *)
(***************************************************************************)
EXTENDS Integers, Sequences, FiniteSets, TLC

\* ---------------------------------------------------------------- bounds
\* Script runs explored per behaviour.
MaxRuns == 4
\* Slider positions explored: those within SliderSpan steps of the slider's
\* minimum, of its maximum and of its initial value.
SliderSpan == 0

\* ------------------------------------------------------ program constants
AminaMin == 240
AminaMax == 750
AminaInitial == 400
AminaStep == 1
IronMin == 60000
IronMax == 70000
IronStep == 5
AirMin == -100
AirMax == 400
AirInitial == 250
AirStep == 1

ModelPath == "model.joblib"

ColAmina == "Amina Flow"
ColAir == "Flotation Column 01 Air Flow"
ColIron == "% Iron Concentrate"

\* Python's None, and the value of a name the run has not bound yet.
None == [id |-> 0, kind |-> "None"]
Unbound == [id |-> 0, kind |-> "unbound"]

\* What the file at ModelPath can be when joblib.load opens it: absent,
\* present but not openable, present but not a valid pickle, or a valid
\* artifact holding a regressor.  A valid artifact is one of three kinds:
\* a regressor that answers, one whose predict rejects the frame (the
\* feature-name error the comment of lines 87-88 cites), one whose predict
\* returns an empty array.
BadArtifacts == {"missing", "unreadable", "malformed"}
PredictorKinds == {"healthy", "rejecting", "emptyout"}
ArtifactStates == BadArtifacts \cup PredictorKinds

VARIABLES
    artifact,               \* the file at ModelPath (environment)
    cache,                  \* st.cache_resource's store for load_model
    loads,                  \* executions of joblib.load in this process
    runs,                   \* script runs started in this process
    firstFailRun,           \* run in which load_model first failed, 0 if none
    pc,                     \* position of the current script run
    model,                  \* the script's global `model`
    AminaFlow,              \* value of the amine-flow slider
    ironconcentrate,        \* value of the iron slider (thousandths)
    flotationcolumnairflow, \* value of the air-flow slider
    button,                 \* st.button returns True in this run
    slidersShown,           \* the sidebar sliders were rendered in this run
    buttonShown,            \* the button was rendered in this run
    df_input,               \* the frame built at lines 89-93, <<>> if none
    predictArg,             \* what model.predict received, <<>> if not called
    predictCalls,           \* calls of model.predict in this run
    prediction_value,       \* the array model.predict returned
    yielded,                \* the value handed to the formatting of line 100
    shown,                  \* the hundredths printed by line 100
    exc,                    \* the exception raised in this run, "none" if none
    message,                \* text of st.error / st.warning of this run
    outcome                 \* how the run ended

vars == <<artifact, cache, loads, runs, firstFailRun, pc, model, AminaFlow,
          ironconcentrate, flotationcolumnairflow, button, slidersShown,
          buttonShown, df_input, predictArg, predictCalls, prediction_value,
          yielded, shown, exc, message, outcome>>

env == <<artifact, cache, loads, firstFailRun>>
widgets == <<AminaFlow, ironconcentrate, flotationcolumnairflow, button>>
rendered == <<slidersShown, buttonShown>>
inference == <<df_input, predictArg, predictCalls, prediction_value, yielded, shown>>
report == <<exc, message, outcome>>

\* ------------------------------------------------------------ the sliders
Near(v, c, step) == v - c <= SliderSpan * step /\ c - v <= SliderSpan * step

\* The values st.slider can return: min_value + k*step, not above max_value.
SliderValues(lo, hi, step, initial) ==
    {v \in lo..hi : /\ (v - lo) % step = 0
                    /\ (Near(v, lo, step) \/ Near(v, hi, step) \/ Near(v, initial, step))}

\* Line 42 with a larger max_value.
AminaSliderValuesWide == SliderValues(AminaMin, AminaMax + 100, AminaStep, AminaInitial)

AminaSliderValues == SliderValues(AminaMin, AminaMax, AminaStep, AminaInitial)
\* No value= is given for the iron slider: it starts at min_value.
IronSliderValues == SliderValues(IronMin, IronMax, IronStep, IronMin)
AirSliderValues == SliderValues(AirMin, AirMax, AirStep, AirInitial)

\* ------------------------------------------------------------ Init
Init ==
    /\ artifact \in ArtifactStates
    /\ cache = {}
    /\ loads = 0
    /\ runs = 0
    /\ firstFailRun = 0
    /\ pc = "idle"
    /\ model = Unbound
    /\ AminaFlow = AminaInitial
    /\ ironconcentrate = IronMin
    /\ flotationcolumnairflow = AirInitial
    /\ button = FALSE
    /\ slidersShown = FALSE
    /\ buttonShown = FALSE
    /\ df_input = <<>>
    /\ predictArg = <<>>
    /\ predictCalls = 0
    /\ prediction_value = <<>>
    /\ yielded = 0
    /\ shown = 0
    /\ exc = "none"
    /\ message = ""
    /\ outcome = "none"

\* ------------------------------------------------------------ helpers
\* st.cache_resource keeps one entry per argument value of load_model.
CacheHas(path) == \E e \in cache : e.key = path
CacheGet(path) == (CHOOSE e \in cache : e.key = path).value

\* Line 81 with the test dropped: the branch is taken whatever model is.
ModelLoadedAlways(m) == TRUE

\* Line 81: `if model is not None`.
ModelLoaded(m) == m # None

\* Line 83 with the button's value ignored: every run predicts.
ButtonAlways(b) == TRUE

\* Line 83: the value st.button returned in this run.
ButtonPressed(b) == b

\* Lines 89-93 with the values of the second and third column exchanged
\* (the sliders are read in the order amine, iron, air).
DfInputSwapped(amina, air, iron) ==
    << <<ColAmina, amina>>, <<ColAir, iron>>, <<ColIron, air>> >>

\* Lines 89-93: the single-row frame, as its columns in order, each with
\* the value of its one row.
DfInput(amina, air, iron) ==
    << <<ColAmina, amina>>, <<ColAir, air>>, <<ColIron, iron>> >>

\* The regressor stored in a valid artifact, on a one-row frame: it reads
\* the columns by position and returns one value per row (in eighths).
Regress(df) ==
    (df[1][2] \div 10) - (df[2][2] \div 4) + ((df[3][2] \div 1000) - 60)

\* model.predict(df): the returned array, for the predictors that return.
PredictOutput(kind, df) ==
    IF kind = "healthy" THEN << Regress(df) >> ELSE << >>

\* Line 100 with the value rounded to a whole percent before it is used.
FirstOutputRounded(pv) == 8 * ((pv[1] + 4) \div 8)

\* Line 100: prediction_value[0].
FirstOutput(pv) == pv[1]

\* Line 100: the ":.2f" formatting of a float: the nearest hundredth of its
\* exact value, a tie going to the even hundredth.  v is in eighths, the
\* result in hundredths.
Format2(v) ==
    LET n == 25 * v
        lo == n \div 2
    IN  IF n % 2 = 0 THEN lo
        ELSE IF lo % 2 = 0 THEN lo ELSE lo + 1

RunOver == pc \in {"idle", "done", "crashed"}

\* A user event reruns the script from its first line, with the widgets'
\* values as given.
StartRun(amina, iron, air, pressed) ==
    /\ RunOver
    /\ runs < MaxRuns
    /\ runs' = runs + 1
    /\ pc' = "load"
    /\ model' = Unbound
    /\ AminaFlow' = amina
    /\ ironconcentrate' = iron
    /\ flotationcolumnairflow' = air
    /\ button' = pressed
    /\ slidersShown' = FALSE
    /\ buttonShown' = FALSE
    /\ df_input' = <<>>
    /\ predictArg' = <<>>
    /\ predictCalls' = 0
    /\ prediction_value' = <<>>
    /\ yielded' = 0
    /\ shown' = 0
    /\ exc' = "none"
    /\ message' = ""
    /\ outcome' = "none"
    /\ UNCHANGED env

\* ------------------------------------------------------------ user events
\* A browser session opens (or reloads) the page: every widget starts at
\* its initial value and the button is not pressed.
OpenSession ==
    /\ RunOver
    /\ StartRun(AminaInitial, IronMin, AirInitial, FALSE)

MoveAminaFlow ==
    /\ slidersShown
    /\ \E v \in AminaSliderValues \ {AminaFlow} :
          StartRun(v, ironconcentrate, flotationcolumnairflow, FALSE)

MoveIronConcentrate ==
    /\ slidersShown
    /\ \E v \in IronSliderValues \ {ironconcentrate} :
          StartRun(AminaFlow, v, flotationcolumnairflow, FALSE)

MoveFlotationAirFlow ==
    /\ slidersShown
    /\ \E v \in AirSliderValues \ {flotationcolumnairflow} :
          StartRun(AminaFlow, ironconcentrate, v, FALSE)

\* The button exists only on a page whose run rendered it (line 83 is
\* inside the branch of line 81).
PressButton ==
    /\ buttonShown
    /\ StartRun(AminaFlow, ironconcentrate, flotationcolumnairflow, TRUE)

\* The file at ModelPath is replaced, removed or damaged between runs.
ChangeArtifact ==
    /\ RunOver
    /\ \E a \in ArtifactStates \ {artifact} : artifact' = a
    /\ UNCHANGED <<cache, loads, runs, firstFailRun, pc, model, widgets,
                   rendered, inference, report>>

\* ------------------------------------------------------------ load_model
\* Line 29, the cache holds an entry for the path: the body is not run.
LoadModelCached ==
    /\ pc = "load"
    /\ CacheHas(ModelPath)
    /\ model' = CacheGet(ModelPath)
    /\ pc' = "sidebar"
    /\ UNCHANGED <<env, runs, widgets, rendered, inference, report>>

\* Lines 20-22: joblib.load returns the deserialized regressor, a new
\* object; the decorator stores it.
LoadModelLoads ==
    /\ pc = "load"
    /\ ~CacheHas(ModelPath)
    /\ artifact \in PredictorKinds
    /\ loads' = loads + 1
    /\ LET obj == [id |-> loads + 1, kind |-> artifact]
       IN  /\ cache' = cache \cup {[key |-> ModelPath, value |-> obj]}
           /\ model' = obj
    /\ pc' = "sidebar"
    /\ UNCHANGED <<artifact, firstFailRun, runs, widgets, rendered, inference, report>>

\* Lines 23-25: FileNotFoundError is caught, st.error is shown and None is
\* returned; the decorator stores the None like any other return value.
LoadModelNotFound ==
    /\ pc = "load"
    /\ ~CacheHas(ModelPath)
    /\ artifact = "missing"
    /\ loads' = loads + 1
    /\ cache' = cache \cup {[key |-> ModelPath, value |-> None]}
    /\ model' = None
    /\ firstFailRun' = IF firstFailRun = 0 THEN runs ELSE firstFailRun
    /\ exc' = "FileNotFoundError"
    /\ message' = "No se encontro el archivo del modelo"
    /\ pc' = "sidebar"
    /\ UNCHANGED <<artifact, runs, widgets, rendered, inference, outcome>>

\* Lines 20-25: any other exception of joblib.load (PermissionError,
\* UnpicklingError, EOFError, ...) matches no except clause: it leaves
\* load_model, nothing is stored, and the run stops at line 29.
LoadModelRaises ==
    /\ pc = "load"
    /\ ~CacheHas(ModelPath)
    /\ artifact \in {"unreadable", "malformed"}
    /\ loads' = loads + 1
    /\ firstFailRun' = IF firstFailRun = 0 THEN runs ELSE firstFailRun
    /\ exc' = IF artifact = "unreadable" THEN "PermissionError" ELSE "UnpicklingError"
    /\ outcome' = "load_raised"
    /\ pc' = "crashed"
    /\ UNCHANGED <<artifact, cache, runs, model, widgets, rendered, inference, message>>

\* ------------------------------------------------------------ the page
\* Lines 32-65: the sidebar renders the three sliders; each returns its
\* widget's value.
Sidebar ==
    /\ pc = "sidebar"
    /\ slidersShown' = TRUE
    /\ pc' = "branch"
    /\ UNCHANGED <<env, runs, model, widgets, buttonShown, inference, report>>

\* Lines 104-105: no model, so a warning is shown instead of the button.
ModelAbsent ==
    /\ pc = "branch"
    /\ ~ModelLoaded(model)
    /\ message' = "El modelo no pudo ser cargado"
    /\ outcome' = "model_unavailable"
    /\ pc' = "done"
    /\ UNCHANGED <<env, runs, model, widgets, rendered, inference, exc>>

\* Line 81, the model is there.
ModelPresent ==
    /\ pc = "branch"
    /\ ModelLoaded(model)
    /\ pc' = "button"
    /\ UNCHANGED <<env, runs, model, widgets, rendered, inference, report>>

\* Line 83, st.button returns False: the run shows the page and ends.
ButtonNotPressed ==
    /\ pc = "button"
    /\ ~ButtonPressed(button)
    /\ buttonShown' = TRUE
    /\ outcome' = "no_prediction"
    /\ pc' = "done"
    /\ UNCHANGED <<env, runs, model, widgets, slidersShown, inference, exc, message>>

\* Line 83, st.button returns True.
ButtonIsPressed ==
    /\ pc = "button"
    /\ ButtonPressed(button)
    /\ buttonShown' = TRUE
    /\ pc' = "package"
    /\ UNCHANGED <<env, runs, model, widgets, slidersShown, inference, report>>

\* ------------------------------------------------------------ prediction
\* Lines 89-93: the frame is built.
Package ==
    /\ pc = "package"
    /\ df_input' = DfInput(AminaFlow, flotationcolumnairflow, ironconcentrate)
    /\ pc' = "predict"
    /\ UNCHANGED <<env, runs, model, widgets, rendered, predictArg, predictCalls,
                   prediction_value, yielded, shown, report>>

\* Lines 89-93 stand before the try of line 96: an exception raised while
\* the frame is built (a MemoryError, say) has no handler in the script and
\* ends the run.
PackageRaises ==
    /\ pc = "package"
    /\ exc' = "PackagingError"
    /\ outcome' = "package_raised"
    /\ pc' = "crashed"
    /\ UNCHANGED <<env, runs, model, widgets, rendered, inference, message>>

\* Lines 97-101: predict returns an array with a first element; the
\* result is shown.
PredictReturns ==
    /\ pc = "predict"
    /\ model.kind = "healthy"
    /\ predictArg' = df_input
    /\ predictCalls' = predictCalls + 1
    /\ LET pv == PredictOutput(model.kind, df_input)
       IN  /\ prediction_value' = pv
           /\ yielded' = FirstOutput(pv)
           /\ shown' = Format2(FirstOutput(pv))
    /\ outcome' = "success"
    /\ pc' = "done"
    /\ UNCHANGED <<env, runs, model, widgets, rendered, df_input, exc, message>>

\* Lines 97, 102-103: predict raises; the handler shows the error.
PredictRaises ==
    /\ pc = "predict"
    /\ model.kind \notin {"healthy", "emptyout"}
    /\ predictArg' = df_input
    /\ predictCalls' = predictCalls + 1
    /\ exc' = "PredictError"
    /\ message' = "Ocurrio un error durante la prediccion: PredictError"
    /\ outcome' = "prediction_error"
    /\ pc' = "done"
    /\ UNCHANGED <<env, runs, model, widgets, rendered, df_input,
                   prediction_value, yielded, shown>>

\* Lines 97-103: predict returns an empty array, prediction_value[0]
\* raises IndexError inside the try; the handler shows the error.
PredictEmpty ==
    /\ pc = "predict"
    /\ model.kind = "emptyout"
    /\ predictArg' = df_input
    /\ predictCalls' = predictCalls + 1
    /\ prediction_value' = PredictOutput(model.kind, df_input)
    /\ exc' = "IndexError"
    /\ message' = "Ocurrio un error durante la prediccion: IndexError"
    /\ outcome' = "prediction_error"
    /\ pc' = "done"
    /\ UNCHANGED <<env, runs, model, widgets, rendered, df_input, yielded, shown>>

\* ------------------------------------------------------------ Next, Spec
Next ==
    \/ OpenSession
    \/ MoveAminaFlow
    \/ MoveIronConcentrate
    \/ MoveFlotationAirFlow
    \/ PressButton
    \/ ChangeArtifact
    \/ LoadModelCached
    \/ LoadModelLoads
    \/ LoadModelNotFound
    \/ LoadModelRaises
    \/ Sidebar
    \/ ModelAbsent
    \/ ModelPresent
    \/ ButtonNotPressed
    \/ ButtonIsPressed
    \/ Package
    \/ PackageRaises
    \/ PredictReturns
    \/ PredictRaises
    \/ PredictEmpty

Spec == Init /\ [][Next]_vars

\* ------------------------------------------------------------ properties
LoadExceptions == {"FileNotFoundError", "PermissionError", "UnpicklingError"}
PredictionExceptions == {"PackagingError", "PredictError", "IndexError"}

\* The value of the column named col in a frame.
ColumnValue(df, col) == df[CHOOSE i \in DOMAIN df : df[i][1] = col][2]

\* C1: joblib.load is executed at most once in the process, and once a
\* load has succeeded every later call of load_model returns that same
\* Predictor.
C1_LoaderIdempotent ==
    /\ loads <= 1
    /\ \A e \in cache :
          (e.value # None /\ model # Unbound) => model = e.value

\* C2: whatever makes the load fail (artifact missing, unreadable or
\* malformed), load_model returns None to its caller and no exception
\* leaves load_model.
C2_LoadFailureReturned ==
    exc \in LoadExceptions => (model = None /\ pc # "crashed")

\* C3: an error raised while the frame is built or during inference is
\* caught and becomes a prediction-error outcome with a message; it does
\* not end the run unhandled.
C3_PredictionErrorsCaught ==
    exc \in PredictionExceptions =>
        (outcome = "prediction_error" /\ message # "" /\ pc # "crashed")

\* C4: in a run whose model is None the predictor is never invoked, no
\* frame and no prediction are produced, the run does not crash, and it
\* ends in the "model could not be loaded" state.
C4_AbsentModelFails ==
    model = None =>
        /\ predictCalls = 0
        /\ df_input = <<>>
        /\ prediction_value = <<>>
        /\ pc # "crashed"
        /\ outcome \in {"none", "model_unavailable"}
        /\ (pc = "done" => outcome = "model_unavailable" /\ message # "")

C4_Witness ==
    /\ model = None
    /\ pc = "done"
    /\ outcome = "model_unavailable"
    /\ AminaFlow # AminaInitial
    /\ artifact \in PredictorKinds

\* C5: once load_model has failed, every later run of the process ends in
\* the "predictor unavailable" state without a prediction.
C5_FailureIsFinal ==
    (firstFailRun > 0 /\ runs > firstFailRun) =>
        /\ predictCalls = 0
        /\ (pc \in {"done", "crashed"} => outcome = "model_unavailable")

\* C6: the frame handed to the predictor has the three columns 'Amina
\* Flow', 'Flotation Column 01 Air Flow', '% Iron Concentrate' in this
\* order, each holding the value of its own slider.
C6_RecordLayout ==
    LET expected == << <<"Amina Flow", AminaFlow>>,
                       <<"Flotation Column 01 Air Flow", flotationcolumnairflow>>,
                       <<"% Iron Concentrate", ironconcentrate>> >>
    IN  /\ (df_input # <<>> => df_input = expected)
        /\ (predictCalls > 0 => predictArg = expected)

C6_Witness ==
    /\ predictCalls > 0
    /\ outcome = "success"
    /\ AminaFlow # AminaInitial
    /\ ironconcentrate # IronMin

\* C7: every frame that reaches the predictor has its amine flow in
\* [100, 800], its iron percentage in [0, 100] and its air flow in
\* [-100, 500].
C7_RecordInRanges ==
    predictCalls > 0 =>
        /\ ColumnValue(predictArg, "Amina Flow") \in 100..800
        /\ ColumnValue(predictArg, "% Iron Concentrate") \in 0..100000
        /\ ColumnValue(predictArg, "Flotation Column 01 Air Flow") \in -100..500

C7_Witness ==
    /\ predictCalls > 0
    /\ ColumnValue(predictArg, "Amina Flow") = AminaMax
    /\ ColumnValue(predictArg, "Flotation Column 01 Air Flow") = AirMin

\* C8: on success the value the page uses is the first element of what the
\* predictor returned for the frame, unchanged; only the printed text is
\* rounded, to the nearest hundredth.
C8_RawOutput ==
    outcome = "success" =>
        /\ prediction_value = << Regress(predictArg) >>
        /\ yielded = prediction_value[1]
        /\ 8 * shown - 100 * yielded \in -4..4

C8_Witness ==
    /\ outcome = "success"
    /\ yielded % 8 # 0
    /\ 8 * shown # 100 * yielded

\* C10: a run invokes the predictor at most once, and only with a loaded
\* model and the button pressed in that run; an invocation leaves the
\* cached Predictor as it was.
C10_OncePerAction ==
    /\ [](/\ predictCalls <= 1
          /\ (predictCalls > 0 => (button /\ model # None /\ model # Unbound)))
    /\ [][predictCalls' > predictCalls => (cache' = cache /\ model' = model)]_vars

C10_Witness ==
    /\ predictCalls = 1
    /\ pc = "done"
    /\ runs >= 3
    /\ loads = 1

====
